---------------------------- MODULE Spec2Model ----------------------------
(***************************************************************************)
(* A model of src/src/renderer.ts: the Renderer class, which drives one    *)
(* browser page per serialize / screenshot call.                           *)
(*                                                                         *)
(* Every `await` of the source is a suspension point: the model has one    *)
(* action per resumption, and that action runs the synchronous code up to  *)
(* the next `await` (JavaScript runs to completion between awaits).  The   *)
(* browser (puppeteer) is the environment: each of its primitives settles  *)
(* with success or failure, and it emits response events on open pages.    *)
(***************************************************************************)
EXTENDS Integers, Sequences, FiniteSets, TLC

\* ------------------------------------------------------------------ bounds
\* Number of call slots (calls that may be in flight against one browser).
NumCalls == 2
\* Number of response events the browser emits in a run, on all its pages.
MaxEvents == 2

Calls == 1..NumCalls
\* Every call opens at most one page: one page id per call slot.
PageIds == 1..NumCalls

\* ------------------------------------------------------- program constants
MOBILE_USERAGENT ==
    "Mozilla/5.0 (Linux; Android 8.0.0; Pixel 2 XL Build/OPD1.170816.004) AppleWebKit/537.36 (KHTML, like Gecko) Chrome/68.0.3440.75 Mobile Safari/537.36"
DEFAULT_USERAGENT == "HeadlessChrome"

\* this.config: the viewport serialize uses.
Config == [width |-> 1000, height |-> 1000]
\* The dimensions arguments screenshot is called with.
DimensionsArgs == {[width |-> 320, height |-> 480]}

\* ---------------------------------------------------------- the environment
\* The browser primitives the Renderer calls; each may reject.
Primitives ==
    {"newPage", "setViewport", "setUserAgent", "goto", "$eval", "evaluate",
     "screenshot", "close"}

\* Status codes a response may carry.
Statuses == {200, 304, 404}

\* A document is what the render:status_code lookup can see of it: whether the
\* meta tag is there, whether it has a content attribute, and the attribute's
\* characters.
NoTagDocument == [tag |-> FALSE, attr |-> FALSE, content |-> <<>>]
NoAttrDocument == [tag |-> TRUE, attr |-> FALSE, content |-> <<>>]
MetaContents ==
    { <<"4", "0", "4">>, <<"0">>, <<>>, <<"a", "b">>, <<"4", "1", "0", "x">>,
      <<" ", "3", "0", "1">>, <<"-", "1">>, <<"x", "5">>, <<"+", "7">>,
      <<"-">>, <<"2", "0", "0">> }
Documents ==
    {NoTagDocument, NoAttrDocument}
      \cup {[tag |-> TRUE, attr |-> TRUE, content |-> s] : s \in MetaContents}

\* ------------------------------------------------------------ JavaScript
\* JavaScript values of `newStatusCode`: a number, NaN or undefined.
Num(n) == [t |-> "number", v |-> n]
NaN == [t |-> "NaN", v |-> 0]
Undefined == [t |-> "undefined", v |-> 0]

DigitChars == <<"0", "1", "2", "3", "4", "5", "6", "7", "8", "9">>
IsDigit(ch) == \E i \in 1..10 : DigitChars[i] = ch
DigitVal(ch) == (CHOOSE i \in 1..10 : DigitChars[i] = ch) - 1
IsWhiteSpace(ch) == ch \in {" ", "\t", "\n"}

RECURSIVE TrimStart(_)
TrimStart(s) ==
    IF Len(s) > 0 /\ IsWhiteSpace(s[1]) THEN TrimStart(Tail(s)) ELSE s

RECURSIVE DigitPrefix(_)
DigitPrefix(s) ==
    IF Len(s) > 0 /\ IsDigit(s[1]) THEN <<s[1]>> \o DigitPrefix(Tail(s)) ELSE <<>>

RECURSIVE DigitsValue(_, _)
DigitsValue(d, acc) ==
    IF Len(d) = 0 THEN acc ELSE DigitsValue(Tail(d), 10 * acc + DigitVal(d[1]))

\* parseInt(s, 10): leading white space is skipped, one sign is read, then the
\* longest run of decimal digits; no digit at all gives NaN.
ParseInt(s) ==
    LET t == TrimStart(s)
        signed == Len(t) > 0 /\ t[1] \in {"+", "-"}
        negative == Len(t) > 0 /\ t[1] = "-"
        d == DigitPrefix(IF signed THEN Tail(t) ELSE t)
    IN  IF Len(d) = 0 THEN NaN
        ELSE Num(IF negative THEN 0 - DigitsValue(d, 0) ELSE DigitsValue(d, 0))

\* The truth value JavaScript gives a value in `a && b`: undefined, NaN and 0
\* are falsy.
Truthy(x) == x.t = "number" /\ x.v # 0

\* element.getAttribute('content') || '' : a missing attribute reads as ''.
GetContentOrEmpty(doc) == IF doc.attr THEN doc.content ELSE <<>>

\* page.$eval('meta[name="render:status_code"]', parseInt(...)).catch(() => undefined)
\* $eval rejects when no element matches and when the page fails.
MetaStatusCode(doc, ok) ==
    IF ok /\ doc.tag THEN ParseInt(GetContentOrEmpty(doc)) ELSE Undefined

\* document.documentElement.outerHTML
OuterHTML(doc) ==
    <<"<html>">>
      \o (IF doc.tag
            THEN <<"<meta name=render:status_code">>
                   \o (IF doc.attr THEN <<" content=">> \o doc.content ELSE <<>>)
                   \o <<">">>
            ELSE <<>>)
      \o <<"</html>">>

\* A slip: a 304 is passed on as it is.
KeepStatus(s) == s

\* `if (statusCode === 304) statusCode = 200`
NormalizeStatus(s) == IF s = 304 THEN 200 ELSE s

\* A slip: the tag's status code replaces any status, not only 200.
OverrideAnyStatus(s, n) == IF Truthy(n) THEN n.v ELSE s

\* `if (statusCode === 200 && newStatusCode) statusCode = newStatusCode`
OverrideStatus(s, n) == IF s = 200 /\ Truthy(n) THEN n.v ELSE s

\* ------------------------------------------------------------------ state
VARIABLES
    env,        \* what the environment of this run may do (fixed by Init)
    calls,      \* per call slot: the locals of one serialize / screenshot call
    pages,      \* per page id: the browser's page
    created     \* number of pages browser.newPage() has created

vars == <<env, calls, pages, created>>

\* `let response = null`
NullResponse == [page |-> 0, seq |-> 0, status |-> 0]
\* A puppeteer.Response: seen on `page`; seq 0 is the one page.goto resolves
\* with, seq n > 0 the one the n-th response event carries.
Response(p, n, s) == [page |-> p, seq |-> n, status |-> s]

NoViewport == [width |-> 0, height |-> 0, isMobile |-> FALSE, set |-> FALSE]
Viewport(w, h, m) == [width |-> w, height |-> h, isMobile |-> m, set |-> TRUE]
NoDimensions == [width |-> 0, height |-> 0]

Pending == [type |-> "pending", status |-> 0, content |-> <<>>, error |-> ""]
\* `return { status, content }`
Returned(s, c) == [type |-> "returned", status |-> s, content |-> c, error |-> ""]
\* `return buffer`
ReturnedBuffer == [type |-> "returned", status |-> 0, content |-> <<"jpeg">>, error |-> ""]
\* a rejected promise: the error a primitive threw, or a ScreenshotError's type
Raised(e) == [type |-> "raised", status |-> 0, content |-> <<>>, error |-> e]

IdleCall ==
    [ op |-> "none", pc |-> "idle", isMobile |-> FALSE, dimensions |-> NoDimensions,
      page |-> 0, response |-> NullResponse, statusCode |-> 0,
      newStatusCode |-> Undefined, html |-> <<>>, result |-> Pending,
      \* history of the call, read by the properties only
      opened |-> 0, gotos |-> 0, nav |-> "none", navResponse |-> NullResponse,
      captured |-> NullResponse, used |-> NullResponse, docReads |-> 0,
      captures |-> 0 ]

NoPage ==
    [ state |-> "none", viewport |-> NoViewport, userAgent |-> DEFAULT_USERAGENT,
      uaRequest |-> "none", listeners |-> {}, navigating |-> FALSE, events |-> 0,
      document |-> NoTagDocument,
      \* history of the page, read by the properties only
      opener |-> 0, touched |-> {}, first |-> NullResponse ]

\* Whether primitive `prim` may reject in this run.
Outcomes(prim) == IF prim \in env.faulty THEN BOOLEAN ELSE {TRUE}


\* The environment of a run with one call, in which every primitive may
\* reject and every document may be served.
FullEnv ==
    [ active |-> {1}, faulty |-> Primitives, statuses |-> Statuses,
      documents |-> Documents, devices |-> BOOLEAN ]

\* The environment of a run with NumCalls concurrent calls: navigation may
\* fail, every call is a mobile one, and one status and one document (with an
\* override to 404) are served.
ConcurrentEnv ==
    [ active |-> Calls, faulty |-> {"goto"}, statuses |-> {200},
      documents |-> {[tag |-> TRUE, attr |-> TRUE, content |-> <<"4", "0", "4">>]},
      devices |-> {TRUE} ]

InitState ==
    /\ calls = [c \in Calls |-> IdleCall]
    /\ pages = [p \in PageIds |-> NoPage]
    /\ created = 0

Init == env = FullEnv /\ InitState

InitConcurrent == env = ConcurrentEnv /\ InitState

\* --------------------------------------------------------- the browser
\* The page browser.newPage() creates for call c is a fresh one: the model
\* names it after the call that awaits it.
NewPageId(c) == c

\* browser.newPage(), called by call c, resolved.
PagesAfterNewPage(c) ==
    [pages EXCEPT ![NewPageId(c)] =
        [@ EXCEPT !.state = "open",
                  !.opener = IF @ = 0 THEN c ELSE @,
                  !.touched = @ \cup {c}]]

\* `page`, the page of call c.
PageOf(c) == pages[calls[c].page]

\* Call c invokes a method of page p, which leaves the page as `after`.
PageCall(p, c, after) ==
    [pages EXCEPT ![p] = [after EXCEPT !.touched = @ \cup {c}]]

\* page.close(), resolved.
PagesAfterClose(p, c) == PageCall(p, c, [pages[p] EXCEPT !.state = "closed"])

\* A slip: `response` shared by the calls, so that an event on any page
\* reaches every listener.
AllListeners(p) == UNION {pages[q].listeners : q \in PageIds}

\* The calls whose 'response' listeners an event on page p runs: those that
\* registered one on p with page.on.
ListenersOf(p) == pages[p].listeners

\* `(r) => { if (!response) response = r; }`, the listener of call c.
OnResponse(c, r) ==
    IF calls[c].response = NullResponse
      THEN [calls[c] EXCEPT !.response = r]
      ELSE calls[c]

\* The number of response events emitted so far on the pages in P.
RECURSIVE EventCount(_)
EventCount(P) ==
    IF P = {} THEN 0
    ELSE LET p == CHOOSE q \in P : TRUE
         IN  pages[p].events + EventCount(P \ {p})

\* The browser sees a response on page p and emits the 'response' event.
ResponseEvent(p) ==
    /\ pages[p].state = "open"
    /\ pages[p].navigating
    /\ EventCount(PageIds) < MaxEvents
    /\ \E s \in env.statuses :
         LET r == Response(p, pages[p].events + 1, s)
         IN  /\ pages' = [pages EXCEPT ![p] =
                   [@ EXCEPT !.events = @ + 1,
                             !.first = IF @ = NullResponse THEN r ELSE @]]
             /\ calls' = [c \in Calls |->
                   IF c \in ListenersOf(p) THEN OnResponse(c, r) ELSE calls[c]]
    /\ UNCHANGED <<env, created>>

\* page.setUserAgent(MOBILE_USERAGENT) is not awaited: its promise settles on
\* its own, and a rejection reaches no caller.
UserAgentSettle(p) ==
    /\ pages[p].uaRequest = "pending"
    /\ \E ok \in Outcomes("setUserAgent") :
         pages' = [pages EXCEPT ![p] =
            [@ EXCEPT !.uaRequest = IF ok THEN "applied" ELSE "rejected",
                      !.userAgent = IF ok THEN MOBILE_USERAGENT ELSE @]]
    /\ UNCHANGED <<env, calls, created>>

\* What page.goto may settle with on page p: it throws, it resolves with null,
\* or it resolves with the navigation's response.
GotoOutcomes(p) ==
    {[threw |-> TRUE, response |-> NullResponse]
        : ok \in Outcomes("goto") \ {TRUE}}
      \cup {[threw |-> FALSE, response |-> NullResponse]}
      \cup {[threw |-> FALSE, response |-> Response(p, 0, s)] : s \in env.statuses}

NavKind(out) ==
    IF out.threw THEN "threw"
    ELSE IF out.response = NullResponse THEN "null" ELSE "response"

\* A call ends with a rejected promise.
Raise(c, e) == [calls[c] EXCEPT !.result = Raised(e), !.pc = "done"]

\* ------------------------------------------------------------- serialize
\* `{ width: this.config.width, height: this.config.height, isMobile }`
SerializeViewport(c) == Viewport(Config.width, Config.height, calls[c].isMobile)

\* A slip: the user agent is set whatever the device.
AlwaysSetsUserAgent(c) == TRUE

\* `if (isMobile) page.setUserAgent(MOBILE_USERAGENT)`
SetsUserAgent(c) == calls[c].isMobile

\* The page after setViewport resolved and the call ran on to page.goto: the
\* viewport is set, the user agent is requested for a mobile call, the
\* 'response' listener is registered when the call has one, and the
\* navigation is under way.
ConfiguredPage(p, c, viewport, listens) ==
    PageCall(p, c,
        [pages[p] EXCEPT
            !.viewport = viewport,
            !.uaRequest = IF SetsUserAgent(c) THEN "pending" ELSE @,
            !.listeners = IF listens THEN @ \cup {c} ELSE @,
            !.navigating = TRUE])

\* serialize(requestUrl, isMobile) is called: it calls browser.newPage().
Serialize(c) ==
    /\ c \in env.active
    /\ calls[c].pc = "idle"
    /\ \E m \in env.devices :
         calls' = [calls EXCEPT ![c] =
            [@ EXCEPT !.op = "serialize", !.isMobile = m, !.pc = "newPage"]]
    /\ UNCHANGED <<env, pages, created>>

\* `const page = await this.browser.newPage()` settles; page.setViewport is
\* called.
SerializeNewPage(c) ==
    /\ calls[c].op = "serialize"
    /\ calls[c].pc = "newPage"
    /\ \E ok \in Outcomes("newPage") :
         IF ok
           THEN /\ pages' = PagesAfterNewPage(c)
                /\ created' = created + 1
                /\ calls' = [calls EXCEPT ![c] =
                      [@ EXCEPT !.page = NewPageId(c), !.opened = @ + 1,
                                !.pc = "setViewport"]]
           ELSE /\ calls' = [calls EXCEPT ![c] = Raise(c, "newPage")]
                /\ UNCHANGED <<pages, created>>
    /\ UNCHANGED env

\* `await page.setViewport(...)` settles; the call sets the user agent,
\* registers its 'response' listener and calls page.goto.
SerializeSetViewport(c) ==
    /\ calls[c].op = "serialize"
    /\ calls[c].pc = "setViewport"
    /\ \E ok \in Outcomes("setViewport") :
         IF ok
           THEN /\ pages' = ConfiguredPage(calls[c].page, c, SerializeViewport(c), TRUE)
                /\ calls' = [calls EXCEPT ![c] =
                      [@ EXCEPT !.gotos = @ + 1, !.pc = "goto"]]
           ELSE /\ pages' = PageCall(calls[c].page, c, PageOf(c))
                /\ calls' = [calls EXCEPT ![c] = Raise(c, "setViewport")]
    /\ UNCHANGED <<env, created>>

\* `try { response = await page.goto(...) } catch (e) { console.error(...) }`:
\* the value of `response` after it, `current` being its value before.
SerializeResponseAfterGoto(current, out) ==
    IF out.threw THEN current ELSE out.response

\* page.goto settles.  Without a response the call calls page.close();
\* with one it reads the status and calls page.$eval.
SerializeGoto(c) ==
    /\ calls[c].op = "serialize"
    /\ calls[c].pc = "goto"
    /\ \E out \in GotoOutcomes(calls[c].page) :
         LET response == SerializeResponseAfterGoto(calls[c].response, out)
             seen == [calls[c] EXCEPT !.response = response,
                                      !.nav = NavKind(out),
                                      !.navResponse = out.response,
                                      !.captured = calls[c].response]
         IN  IF response = NullResponse
               THEN /\ calls' = [calls EXCEPT ![c] =
                          [seen EXCEPT !.pc = "closeNoResponse"]]
                    /\ pages' = PageCall(calls[c].page, c, PageOf(c))
               ELSE \E d \in env.documents :
                    \* d: the document the page holds once it has loaded
                    /\ calls' = [calls EXCEPT ![c] =
                          [seen EXCEPT !.statusCode = response.status,
                                       !.used = response,
                                       !.docReads = @ + 1,
                                       !.pc = "$eval"]]
                    /\ pages' = PageCall(calls[c].page, c, [PageOf(c) EXCEPT !.document = d])
    /\ UNCHANGED <<env, created>>

\* `await page.close(); return { status: 400, content: '' }`
SerializeNoResponseClose(c) ==
    /\ calls[c].op = "serialize"
    /\ calls[c].pc = "closeNoResponse"
    /\ \E ok \in Outcomes("close") :
         IF ok
           THEN /\ pages' = PagesAfterClose(calls[c].page, c)
                /\ calls' = [calls EXCEPT ![c] =
                      [@ EXCEPT !.result = Returned(400, <<>>), !.pc = "done"]]
           ELSE /\ pages' = PageCall(calls[c].page, c, PageOf(c))
                /\ calls' = [calls EXCEPT ![c] = Raise(c, "close")]
    /\ UNCHANGED <<env, created>>

\* The status after the meta tag was looked up: 304 counts as 200, and a
\* status of 200 gives way to the tag's status code.
ResolveStatus(statusCode, newStatusCode) ==
    OverrideStatus(NormalizeStatus(statusCode), newStatusCode)

\* `const newStatusCode = await page.$eval(...).catch(() => undefined)`
\* settles; the status is resolved and page.evaluate is called.
SerializeMetaTag(c) ==
    /\ calls[c].op = "serialize"
    /\ calls[c].pc = "$eval"
    /\ \E ok \in Outcomes("$eval") :
         LET n == MetaStatusCode(pages[calls[c].page].document, ok)
         IN  calls' = [calls EXCEPT ![c] =
                [@ EXCEPT !.newStatusCode = n,
                          !.statusCode = ResolveStatus(@, n),
                          !.docReads = @ + 1,
                          !.pc = "evaluate"]]
    /\ pages' = PageCall(calls[c].page, c, PageOf(c))
    /\ UNCHANGED <<env, created>>

\* `const result = await page.evaluate(...)` settles; page.close is called.
SerializeEvaluate(c) ==
    /\ calls[c].op = "serialize"
    /\ calls[c].pc = "evaluate"
    /\ \E ok \in Outcomes("evaluate") :
         IF ok
           THEN calls' = [calls EXCEPT ![c] =
                  [@ EXCEPT !.html = OuterHTML(pages[calls[c].page].document),
                            !.pc = "close"]]
           ELSE calls' = [calls EXCEPT ![c] = Raise(c, "evaluate")]
    /\ pages' = PageCall(calls[c].page, c, PageOf(c))
    /\ UNCHANGED <<env, created>>

\* `await page.close(); return { status: statusCode, content: result }`
SerializeClose(c) ==
    /\ calls[c].op = "serialize"
    /\ calls[c].pc = "close"
    /\ \E ok \in Outcomes("close") :
         IF ok
           THEN /\ pages' = PagesAfterClose(calls[c].page, c)
                /\ calls' = [calls EXCEPT ![c] =
                      [@ EXCEPT !.result = Returned(calls[c].statusCode, calls[c].html),
                                !.pc = "done"]]
           ELSE /\ pages' = PageCall(calls[c].page, c, PageOf(c))
                /\ calls' = [calls EXCEPT ![c] = Raise(c, "close")]
    /\ UNCHANGED <<env, created>>

\* ------------------------------------------------------------ screenshot
\* `{ width: dimensions.width, height: dimensions.height, isMobile }`
ScreenshotViewport(c) ==
    Viewport(calls[c].dimensions.width, calls[c].dimensions.height, calls[c].isMobile)

\* screenshot(requestUrl, isMobile, dimensions, options) is called: it calls
\* browser.newPage().
Screenshot(c) ==
    /\ c \in env.active
    /\ calls[c].pc = "idle"
    /\ \E m \in env.devices, dim \in DimensionsArgs :
         calls' = [calls EXCEPT ![c] =
            [@ EXCEPT !.op = "screenshot", !.isMobile = m, !.dimensions = dim,
                      !.pc = "newPage"]]
    /\ UNCHANGED <<env, pages, created>>

\* `const page = await this.browser.newPage()` settles; page.setViewport is
\* called.
ScreenshotNewPage(c) ==
    /\ calls[c].op = "screenshot"
    /\ calls[c].pc = "newPage"
    /\ \E ok \in Outcomes("newPage") :
         IF ok
           THEN /\ pages' = PagesAfterNewPage(c)
                /\ created' = created + 1
                /\ calls' = [calls EXCEPT ![c] =
                      [@ EXCEPT !.page = NewPageId(c), !.opened = @ + 1,
                                !.pc = "setViewport"]]
           ELSE /\ calls' = [calls EXCEPT ![c] = Raise(c, "newPage")]
                /\ UNCHANGED <<pages, created>>
    /\ UNCHANGED env

\* `await page.setViewport(...)` settles; the call sets the user agent and
\* calls page.goto (screenshot registers no listener).
ScreenshotSetViewport(c) ==
    /\ calls[c].op = "screenshot"
    /\ calls[c].pc = "setViewport"
    /\ \E ok \in Outcomes("setViewport") :
         IF ok
           THEN /\ pages' = ConfiguredPage(calls[c].page, c, ScreenshotViewport(c), FALSE)
                /\ calls' = [calls EXCEPT ![c] =
                      [@ EXCEPT !.gotos = @ + 1, !.pc = "goto"]]
           ELSE /\ pages' = PageCall(calls[c].page, c, PageOf(c))
                /\ calls' = [calls EXCEPT ![c] = Raise(c, "setViewport")]
    /\ UNCHANGED <<env, created>>

\* `try { response = await page.goto(...) } catch (e) { console.error(...) }`
\* in screenshot: the value of `response` after it.
ScreenshotResponseAfterGoto(current, out) ==
    IF out.threw THEN current ELSE out.response

\* A slip: the other ErrorType is thrown.
ForbiddenError == "Forbidden"

\* `throw new ScreenshotError('NoResponse')`
NoResponseError == "NoResponse"

\* page.goto settles.  Without a response the call throws
\* ScreenshotError('NoResponse'); with one it calls page.screenshot.
ScreenshotGoto(c) ==
    /\ calls[c].op = "screenshot"
    /\ calls[c].pc = "goto"
    /\ \E out \in GotoOutcomes(calls[c].page) :
         LET response == ScreenshotResponseAfterGoto(calls[c].response, out)
             seen == [calls[c] EXCEPT !.response = response,
                                      !.nav = NavKind(out),
                                      !.navResponse = out.response,
                                      !.captured = calls[c].response]
         IN  IF response = NullResponse
               THEN calls' = [calls EXCEPT ![c] =
                      [seen EXCEPT !.result = Raised(NoResponseError), !.pc = "done"]]
               ELSE calls' = [calls EXCEPT ![c] =
                      [seen EXCEPT !.used = response, !.captures = @ + 1,
                                   !.pc = "screenshot"]]
    /\ pages' = PageCall(calls[c].page, c, PageOf(c))
    /\ UNCHANGED <<env, created>>

\* `const buffer = await page.screenshot(screenshotOptions)` settles;
\* page.close is called.
ScreenshotCapture(c) ==
    /\ calls[c].op = "screenshot"
    /\ calls[c].pc = "screenshot"
    /\ \E ok \in Outcomes("screenshot") :
         IF ok
           THEN calls' = [calls EXCEPT ![c] = [@ EXCEPT !.pc = "close"]]
           ELSE calls' = [calls EXCEPT ![c] = Raise(c, "screenshot")]
    /\ pages' = PageCall(calls[c].page, c, PageOf(c))
    /\ UNCHANGED <<env, created>>

\* `await page.close(); return buffer`
ScreenshotClose(c) ==
    /\ calls[c].op = "screenshot"
    /\ calls[c].pc = "close"
    /\ \E ok \in Outcomes("close") :
         IF ok
           THEN /\ pages' = PagesAfterClose(calls[c].page, c)
                /\ calls' = [calls EXCEPT ![c] =
                      [@ EXCEPT !.result = ReturnedBuffer, !.pc = "done"]]
           ELSE /\ pages' = PageCall(calls[c].page, c, PageOf(c))
                /\ calls' = [calls EXCEPT ![c] = Raise(c, "close")]
    /\ UNCHANGED <<env, created>>

\* ------------------------------------------------------- specifications
Next ==
    \/ \E c \in Calls : Serialize(c)
    \/ \E c \in Calls : SerializeNewPage(c)
    \/ \E c \in Calls : SerializeSetViewport(c)
    \/ \E c \in Calls : SerializeGoto(c)
    \/ \E c \in Calls : SerializeNoResponseClose(c)
    \/ \E c \in Calls : SerializeMetaTag(c)
    \/ \E c \in Calls : SerializeEvaluate(c)
    \/ \E c \in Calls : SerializeClose(c)
    \/ \E c \in Calls : Screenshot(c)
    \/ \E c \in Calls : ScreenshotNewPage(c)
    \/ \E c \in Calls : ScreenshotSetViewport(c)
    \/ \E c \in Calls : ScreenshotGoto(c)
    \/ \E c \in Calls : ScreenshotCapture(c)
    \/ \E c \in Calls : ScreenshotClose(c)
    \/ \E p \in PageIds : ResponseEvent(p)
    \/ \E p \in PageIds : UserAgentSettle(p)

\* One call, against an environment in which everything may fail.
Spec == Init /\ [][Next]_vars

\* NumCalls calls in flight against the same browser.
SpecConcurrent == InitConcurrent /\ [][Next]_vars

\* ------------------------------------------------------------ properties
IsSerialize(c) == calls[c].op = "serialize"
IsScreenshot(c) == calls[c].op = "screenshot"
\* The call has completed: its promise is resolved or rejected.
Done(c) == calls[c].pc = "done"
HasPage(c) == calls[c].page # 0
PageClosed(c) == PageOf(c).state = "closed"
\* page.goto has settled in call c.
NavSettled(c) == calls[c].nav # "none"
\* The integer the document's render:status_code tag parses to, or NaN.
TagValue(doc) == ParseInt(GetContentOrEmpty(doc))

\* C1: no serialize call completes with the page it opened still open,
\* whichever primitives fail.
C1_SerializeAlwaysClosesPage ==
    \A c \in Calls : IsSerialize(c) /\ Done(c) /\ HasPage(c) => PageClosed(c)

\* C2: a serialize call that has opened its page never completes with a raised
\* error: it completes with a {status, content} value.
C2_SerializeNeverRaises ==
    \A c \in Calls :
        IsSerialize(c) /\ Done(c) /\ HasPage(c) => calls[c].result.type = "returned"

\* C3 as stated: when the tag's content parses as an integer v (and the lookup
\* has read it), a serialize call that returns with response status 200 or 304
\* returns v, and with any other response status returns that status.
C3_OverrideAdoptedForEveryInteger ==
    \A c \in Calls :
        ( /\ IsSerialize(c)
          /\ calls[c].result.type = "returned"
          /\ calls[c].used # NullResponse
          /\ PageOf(c).document.tag
          /\ TagValue(PageOf(c).document).t = "number"
          /\ calls[c].newStatusCode = TagValue(PageOf(c).document) )
        => calls[c].result.status =
              IF calls[c].used.status \in {200, 304}
                THEN TagValue(PageOf(c).document).v
                ELSE calls[c].used.status

\* C3 as amended: when the tag lookup succeeds and the content parses as an
\* integer v, a serialize call that returns with response status 200 or 304
\* returns v if v is not 0 and 200 if v is 0; with any other response status it
\* returns that status.
C3_OverrideAdoptedForNonZero ==
    \A c \in Calls :
        ( /\ IsSerialize(c)
          /\ calls[c].result.type = "returned"
          /\ calls[c].used # NullResponse
          /\ PageOf(c).document.tag
          /\ TagValue(PageOf(c).document).t = "number"
          /\ calls[c].newStatusCode = TagValue(PageOf(c).document) )
        => calls[c].result.status =
              IF calls[c].used.status \in {200, 304}
                THEN IF TagValue(PageOf(c).document).v # 0
                       THEN TagValue(PageOf(c).document).v
                       ELSE 200
                ELSE calls[c].used.status

\* C3 witness: a response of status 304 and a tag of content "404" returned 404.
C3_Witness ==
    \E c \in Calls :
        /\ IsSerialize(c)
        /\ calls[c].result.type = "returned"
        /\ calls[c].used.status = 304
        /\ PageOf(c).document.content = <<"4", "0", "4">>
        /\ calls[c].result.status = 404

\* C4: a serialize call that returns with a response and a document without a
\* usable override (no tag, or content that is no integer) returns 200 for a
\* response status of 304 and the response status otherwise.
C4_StatusWithoutOverride ==
    \A c \in Calls :
        ( /\ IsSerialize(c)
          /\ calls[c].result.type = "returned"
          /\ calls[c].used # NullResponse
          /\ \/ ~PageOf(c).document.tag
             \/ TagValue(PageOf(c).document).t = "NaN" )
        => calls[c].result.status =
              IF calls[c].used.status = 304 THEN 200 ELSE calls[c].used.status

\* C4 witness: a response of status 304 and a document without the tag
\* returned 200.
C4_Witness ==
    \E c \in Calls :
        /\ IsSerialize(c)
        /\ calls[c].result.type = "returned"
        /\ calls[c].used.status = 304
        /\ ~PageOf(c).document.tag
        /\ calls[c].result.status = 200

\* C5: a serialize call whose navigation failed, on a page that saw no response
\* event, completes after one navigation attempt with its page closed and the
\* value {status: 400, content: ''}, without having read the document.
C5_NavigationFailureReturns400 ==
    \A c \in Calls :
        ( /\ IsSerialize(c)
          /\ Done(c)
          /\ calls[c].nav = "threw"
          /\ PageOf(c).events = 0 )
        => /\ calls[c].gotos = 1
           /\ PageClosed(c)
           /\ calls[c].result = Returned(400, <<>>)
           /\ calls[c].docReads = 0

\* C6: a screenshot call never raises the navigation's own error nor
\* 'Forbidden'; when navigation threw or gave no response it raises 'NoResponse'
\* and has captured no image; when navigation gave a response it does not raise
\* 'NoResponse'.
C6_ScreenshotNoResponse ==
    \A c \in Calls :
        IsScreenshot(c) =>
            /\ calls[c].result.error \notin {"goto", "Forbidden"}
            /\ calls[c].nav \in {"threw", "null"} =>
                  /\ calls[c].result = Raised("NoResponse")
                  /\ calls[c].captures = 0
            /\ calls[c].nav = "response" => calls[c].result.error # "NoResponse"

\* C6 witness: a screenshot call whose navigation threw has raised 'NoResponse'.
C6_Witness ==
    \E c \in Calls :
        /\ IsScreenshot(c)
        /\ calls[c].nav = "threw"
        /\ calls[c].result = Raised("NoResponse")

\* C7: a completed call that opened a page opened exactly one and has closed
\* it, unless it is a screenshot call that raised 'NoResponse'.
C7_PageClosedExceptNoResponse ==
    \A c \in Calls :
        Done(c) /\ HasPage(c) =>
            /\ calls[c].opened = 1
            /\ \/ PageClosed(c)
               \/ IsScreenshot(c) /\ calls[c].result = Raised("NoResponse")

C9_NavigationResponseElseCaptured ==
    \A c \in Calls :
        IsSerialize(c) /\ NavSettled(c) =>
            calls[c].used =
                IF calls[c].navResponse # NullResponse
                  THEN calls[c].navResponse
                  ELSE calls[c].captured

\* The result a completed serialize call has when it is computed from its own
\* page's document and from the responses its own navigation and listener
\* gave it.
SoloSerializeResult(c) ==
    LET own == IF calls[c].nav = "threw" THEN calls[c].captured ELSE calls[c].navResponse
    IN  IF own = NullResponse
          THEN Returned(400, <<>>)
          ELSE Returned(
                 OverrideStatus(NormalizeStatus(own.status),
                                MetaStatusCode(PageOf(c).document, TRUE)),
                 OuterHTML(PageOf(c).document))

SoloScreenshotResult(c) ==
    IF calls[c].navResponse = NullResponse
      THEN Raised("NoResponse")
      ELSE ReturnedBuffer

\* C10: concurrent calls have distinct pages; only the call that opened a page
\* calls its methods; the responses a call holds were seen on its own page; and
\* a completed call's result is the one computed from its own page alone.
C10_CallsAreIsolated ==
    /\ \A c, d \in Calls :
          c # d /\ HasPage(c) /\ HasPage(d) => calls[c].page # calls[d].page
    /\ \A p \in PageIds :
          pages[p].state # "none" =>
              /\ pages[p].touched = {pages[p].opener}
              /\ calls[pages[p].opener].page = p
    /\ \A c \in Calls :
          /\ calls[c].response # NullResponse => calls[c].response.page = calls[c].page
          /\ calls[c].used # NullResponse => calls[c].used.page = calls[c].page
          /\ calls[c].captured # NullResponse =>
                calls[c].captured = PageOf(c).first
          /\ IsSerialize(c) /\ calls[c].pc = "goto" =>
                calls[c].response = PageOf(c).first
          /\ IsSerialize(c) /\ Done(c) => calls[c].result = SoloSerializeResult(c)
          /\ IsScreenshot(c) /\ Done(c) => calls[c].result = SoloScreenshotResult(c)

\* C10 witness: two serialize calls have completed with different statuses,
\* with response events seen on both their pages.
C10_Witness ==
    \E c, d \in Calls :
        /\ c # d
        /\ IsSerialize(c) /\ IsSerialize(d)
        /\ Done(c) /\ Done(d)
        /\ HasPage(c) /\ HasPage(d)
        /\ PageOf(c).events > 0 /\ PageOf(d).events > 0
        /\ calls[c].result.status = 400
        /\ calls[d].result.status = 404

=============================================================================
